---- MODULE Spec2Model ----
(***************************************************************************)
(* Telemetry bootstrap of rust-cloud-run-service: backend selection from   *)
(* the environment, provider construction (Local / Gcp), installation of   *)
(* the global tracer provider and tracing subscriber, the lifecycle guard, *)
(* and the credential interceptor used by Cloud exports.                   *)
(*                                                                         *)
(* Three specifications share the variables:                               *)
(*   Spec     - the bootstrap calls of one process, step by step           *)
(*   SpecEnv  - the environment readers (from_env, detect) as functions    *)
(*   SpecAuth - concurrent GcpAuthInterceptor::call on one shared provider *)
(***************************************************************************)
EXTENDS Integers, Sequences, FiniteSets, TLC

\* ------------------------------------------------------------------ bounds
MaxCalls == 2
MaxSpans == 1
MaxCallers == 3
MaxEpochs == 2
MaxLen == 2
MaxRecords == 3
MaxThreads == 2

VARIABLES
    env,              \* the process environment: variable name -> value
    adc,              \* ambient Application Default Credentials: "none" | "ok"
    tokenEndpoint,    \* what the token endpoint answers: "grants" | "rejects"
    call,             \* the init call in progress
    history,          \* completed init calls, in order
    globalTracer,     \* id of the provider held by opentelemetry::global (0: none)
    globalSubscriber, \* id of the call whose subscriber is the global default (0: none)
    providers,        \* id -> the SdkTracerProvider built by call id
    guards,           \* id -> "none" | "held" | "released"
    plog,             \* id -> lifecycle events of provider id
    emitted,          \* spans emitted so far
    detected,         \* SpecEnv: result of the last TelemetryBackend::from_env
    prevDetected,     \* SpecEnv: result of the call before it
    platform,         \* SpecEnv: result of the last GcpPlatform::detect ("-": not called)
    gcpCfg,           \* SpecEnv: result of the last GcpConfig::from_env
    mutex,            \* SpecAuth: caller holding the tokio Mutex (0: free)
    waitq,            \* SpecAuth: callers queued on the Mutex, FIFO
    cpc,              \* SpecAuth: caller -> position in call()
    cres,             \* SpecAuth: caller -> what call() returned
    cache,            \* SpecAuth: token cached by the provider
    inflight,         \* SpecAuth: callers with a token request in flight
    epoch,            \* SpecAuth: current expiry window
    fetches,          \* SpecAuth: expiry window -> token requests issued
    okFetches,        \* SpecAuth: expiry window -> token requests that succeeded
    record,           \* SpecFmt: the log record last given to format_event
    line,             \* SpecFmt: what format_event wrote for it, piece by piece
    tpc,              \* SpecLog: thread -> pieces of its record written so far (0: no record)
    trec,             \* SpecLog: thread -> the record it is formatting and its number
    tbuf,             \* SpecLog: thread -> its thread-local format buffer
    stdout,           \* SpecLog: what has reached the log output, piece by piece
    nrec,             \* SpecLog: records started so far
    resSrc,           \* SpecRes: where the configuration came from
    resCfg,           \* SpecRes: the configuration
    resExtra,         \* SpecRes: the backend-supplied attributes
    resOut,           \* SpecRes: the attribute list and the Resource built from it
    mpc,              \* SpecMain: main's position
    server,           \* SpecMain: the HTTP server: "none" | "bound" | "running" | "stopped"
    cobj,             \* SpecCfg: the value the configuration chain holds (config or builder)
    clast,            \* SpecCfg: the last operation of the chain and the value it received
    cfilter           \* SpecCfg: the last filter built and the log_level it was built for

vars == <<env, adc, tokenEndpoint, call, history, globalTracer, globalSubscriber,
          providers, guards, plog, emitted, detected, prevDetected, platform, gcpCfg,
          mutex, waitq, cpc, cres, cache, inflight, epoch, fetches, okFetches,
          record, line, tpc, trec, tbuf, stdout, nrec,
          resSrc, resCfg, resExtra, resOut, mpc, server, cobj, clast, cfilter>>

bootVars == <<call, history, globalTracer, globalSubscriber, providers, guards,
              plog, emitted>>
envVars == <<detected, prevDetected, platform, gcpCfg>>
authVars == <<mutex, waitq, cpc, cres, cache, inflight, epoch, fetches, okFetches>>
worldVars == <<env, adc, tokenEndpoint>>
logVars == <<record, line, tpc, trec, tbuf, stdout, nrec>>
resVars == <<resSrc, resCfg, resExtra, resOut>>
mainVars == <<mpc, server>>
cfgVars == <<cobj, clast, cfilter>>

\* ------------------------------------------------------------ environment
\* std::env::var(name): Ok(value), Err(NotPresent) or Err(NotUnicode).
Unset == [st |-> "NotPresent", val |-> ""]
NotUnicode == [st |-> "NotUnicode", val |-> ""]
Val(s) == [st |-> "Present", val |-> s]

ProjectVars == <<"GOOGLE_CLOUD_PROJECT", "GCLOUD_PROJECT", "GCP_PROJECT">>
MarkerVars == {"K_SERVICE", "K_REVISION", "FUNCTION_NAME", "FUNCTION_TARGET",
               "GAE_SERVICE", "GAE_VERSION"}
ConfigVars == {"OTEL_EXPORTER_OTLP_ENDPOINT", "LOG_FORMAT", "OTEL_SERVICE_NAME",
               "OTEL_SERVICE_VERSION", "RUST_LOG"}
EnvNames == {ProjectVars[i] : i \in 1..3} \cup MarkerVars \cup ConfigVars

is_ok(v) == v.st = "Present"

env_var(e, name) == e[name]

\* a.or_else(|_| b).or_else(|_| c): the first Ok of the chain, else the last Err.
RECURSIVE or_else(_, _)
or_else(e, names) ==
    IF Len(names) = 1 THEN env_var(e, names[1])
    ELSE IF is_ok(env_var(e, names[1])) THEN env_var(e, names[1])
    ELSE or_else(e, Tail(names))

DEFAULT_ENDPOINT == "https://telemetry.googleapis.com"
CARGO_PKG_NAME == "rust-cloud-run-service"
CARGO_PKG_VERSION == "CARGO_PKG_VERSION"

unwrap_or(v, d) == IF is_ok(v) THEN v.val ELSE d

NoPlatform == "None"

GcpPlatform_detect_ServiceMarkersOnly(e) ==
    IF is_ok(env_var(e, "K_SERVICE")) THEN "CloudRun"
    ELSE IF is_ok(env_var(e, "GAE_SERVICE")) THEN "AppEngine"
    ELSE IF is_ok(env_var(e, "FUNCTION_NAME")) THEN "CloudFunctions"
    ELSE NoPlatform

GcpPlatform_detect(e) ==
    IF is_ok(env_var(e, "K_SERVICE")) \/ is_ok(env_var(e, "K_REVISION"))
        THEN "CloudRun"
    ELSE IF is_ok(env_var(e, "FUNCTION_NAME")) \/ is_ok(env_var(e, "FUNCTION_TARGET"))
        THEN "CloudFunctions"
    ELSE IF is_ok(env_var(e, "GAE_SERVICE")) \/ is_ok(env_var(e, "GAE_VERSION"))
        THEN "AppEngine"
    ELSE NoPlatform

GcpPlatform_default == "CloudRun"

\* Option<GcpConfig>: some = FALSE is None.
NoGcpConfig == [some |-> FALSE, project_id |-> "", endpoint |-> "", platform |-> NoPlatform]

GcpConfig_from_env_FirstVarOnly(e) ==
    LET project == env_var(e, "GOOGLE_CLOUD_PROJECT") IN
    IF ~is_ok(project) THEN NoGcpConfig
    ELSE [some |-> TRUE,
          project_id |-> project.val,
          endpoint |-> unwrap_or(env_var(e, "OTEL_EXPORTER_OTLP_ENDPOINT"), DEFAULT_ENDPOINT),
          platform |-> GcpPlatform_default]

GcpConfig_from_env_ReversedOrder(e) ==
    LET project == or_else(e, <<"GCP_PROJECT", "GCLOUD_PROJECT", "GOOGLE_CLOUD_PROJECT">>)
        detect == GcpPlatform_detect(e)
    IN  IF ~is_ok(project) THEN NoGcpConfig
        ELSE [some |-> TRUE,
              project_id |-> project.val,
              endpoint |-> DEFAULT_ENDPOINT,
              platform |-> IF detect = NoPlatform THEN GcpPlatform_default ELSE detect]

GcpConfig_from_env(e) ==
    LET project == or_else(e, ProjectVars)
        detect == GcpPlatform_detect(e)
    IN  IF ~is_ok(project) THEN NoGcpConfig
        ELSE [some |-> TRUE,
              project_id |-> project.val,
              endpoint |-> unwrap_or(env_var(e, "OTEL_EXPORTER_OTLP_ENDPOINT"), DEFAULT_ENDPOINT),
              platform |-> IF detect = NoPlatform THEN GcpPlatform_default ELSE detect]

\* TelemetryBackend: Local, or Gcp(GcpConfig). The crate is built with the
\* telemetry-gcp feature, without which the Gcp variant does not exist.
Local == [kind |-> "Local", project_id |-> "", endpoint |-> "", platform |-> NoPlatform]
Gcp(g) == [kind |-> "Gcp", project_id |-> g.project_id, endpoint |-> g.endpoint,
           platform |-> g.platform]

TelemetryBackend_from_env(e) ==
    LET gcp_config == GcpConfig_from_env(e) IN
    IF gcp_config.some THEN Gcp(gcp_config) ELSE Local

NoEndpoint == [some |-> FALSE, val |-> ""]
SomeEndpoint(s) == [some |-> TRUE, val |-> s]
ok(v) == IF is_ok(v) THEN SomeEndpoint(v.val) ELSE NoEndpoint

TelemetryConfig_from_env(e) ==
    LET lf == env_var(e, "LOG_FORMAT") IN
    [service_name |-> unwrap_or(env_var(e, "OTEL_SERVICE_NAME"), CARGO_PKG_NAME),
     service_version |-> unwrap_or(env_var(e, "OTEL_SERVICE_VERSION"), CARGO_PKG_VERSION),
     otlp_endpoint |-> ok(env_var(e, "OTEL_EXPORTER_OTLP_ENDPOINT")),
     log_level |-> unwrap_or(env_var(e, "RUST_LOG"), "info"),
     log_format |-> IF is_ok(lf) /\ lf.val = "json" THEN "Json" ELSE "Pretty",
     backend |-> TelemetryBackend_from_env(e)]

TelemetryConfig_new(name, version) ==
    [service_name |-> name, service_version |-> version, otlp_endpoint |-> NoEndpoint,
     log_level |-> "info", log_format |-> "Pretty", backend |-> Local]


\* --------------------------------------------------------------- resources
base_attributes(config) ==
    <<[key |-> "service.name", value |-> config.service_name],
      [key |-> "service.version", value |-> config.service_version]>>

\* Resource::builder().with_attributes(attrs).build(): the attributes are kept by
\* key, and a key given twice keeps the value given last.
Resource_with_attributes(attrs) ==
    [k \in {attrs[i].key : i \in DOMAIN attrs} |->
        attrs[CHOOSE i \in DOMAIN attrs :
                  attrs[i].key = k /\ \A j \in DOMAIN attrs : j > i => attrs[j].key # k].value]

build_base_resource(config) == Resource_with_attributes(base_attributes(config))

\* build_resource: let mut attrs = base_attributes(config); attrs.extend(additional)
build_resource_attrs(config, additional) == base_attributes(config) \o additional

build_resource(config, additional) ==
    Resource_with_attributes(build_resource_attrs(config, additional))

OptAttr(key, v) == IF is_ok(v) THEN <<[key |-> key, value |-> v.val]>> ELSE <<>>

platform_as_str(p) ==
    CASE p = "CloudRun" -> "gcp_cloud_run"
      [] p = "CloudFunctions" -> "gcp_cloud_functions"
      [] p = "AppEngine" -> "gcp_app_engine"
      [] p = "ComputeEngine" -> "gcp_compute_engine"
      [] OTHER -> "gcp_kubernetes_engine"

\* GcpResourceBuilder::new(project_id, platform), then the attributes build() collects.
GcpResourceBuilder_attrs(e, gcp) ==
    <<[key |-> "cloud.provider", value |-> "gcp"],
      [key |-> "cloud.platform", value |-> platform_as_str(gcp.platform)],
      [key |-> "cloud.account.id", value |-> gcp.project_id],
      [key |-> "gcp.project_id", value |-> gcp.project_id]>>
    \o OptAttr("cloud.region", or_else(e, <<"CLOUD_RUN_REGION", "FUNCTION_REGION", "GAE_REGION">>))
    \o OptAttr("faas.name", or_else(e, <<"K_SERVICE", "FUNCTION_NAME", "GAE_SERVICE">>))
    \o OptAttr("faas.version", or_else(e, <<"K_REVISION", "GAE_VERSION">>))

\* GcpResourceBuilder::new(project_id, platform).build(config)
GcpResourceBuilder_build(e, gcp, config) ==
    build_resource(config, GcpResourceBuilder_attrs(e, gcp))

\* TelemetryConfig::builder().build() with nothing set.
TelemetryConfigBuilder_build ==
    [service_name |-> CARGO_PKG_NAME, service_version |-> CARGO_PKG_VERSION,
     otlp_endpoint |-> NoEndpoint, log_level |-> "info", log_format |-> "Pretty",
     backend |-> Local]

\* Option<T>: None and Some(v); d stands in the value slot of None.
OptNone(d) == [some |-> FALSE, val |-> d]
OptSome(v) == [some |-> TRUE, val |-> v]
unwrap_or_else(o, d) == IF o.some THEN o.val ELSE d

\* The fields of TelemetryConfig and of TelemetryConfigBuilder.
ConfigFields == {"service_name", "service_version", "otlp_endpoint", "log_level",
                 "log_format", "backend"}

\* TelemetryConfig::with_log_format, with_backend, with_otlp_endpoint, with_log_level
with_log_format(self, format) == [self EXCEPT !.log_format = format]

with_backend(self, backend) == [self EXCEPT !.backend = backend]

with_otlp_endpoint(self, endpoint) == [self EXCEPT !.otlp_endpoint = SomeEndpoint(endpoint)]

with_log_level_ResetsFormat(self, level) ==
    [self EXCEPT !.log_level = level, !.log_format = "Pretty"]

with_log_level(self, level) == [self EXCEPT !.log_level = level]

\* TelemetryConfigBuilder::default(): every field None.
TelemetryConfigBuilder_default ==
    [service_name |-> OptNone(""), service_version |-> OptNone(""),
     otlp_endpoint |-> NoEndpoint, log_level |-> OptNone(""),
     log_format |-> OptNone("Pretty"), backend |-> OptNone(Local)]

\* The setters of TelemetryConfigBuilder.
Builder_service_name(self, name) == [self EXCEPT !.service_name = OptSome(name)]

Builder_service_version(self, version) == [self EXCEPT !.service_version = OptSome(version)]

Builder_otlp_endpoint(self, endpoint) == [self EXCEPT !.otlp_endpoint = SomeEndpoint(endpoint)]

Builder_log_level(self, level) == [self EXCEPT !.log_level = OptSome(level)]

Builder_log_format(self, format) == [self EXCEPT !.log_format = OptSome(format)]

Builder_json(self) == Builder_log_format(self, "Json")

Builder_pretty(self) == Builder_log_format(self, "Pretty")

Builder_backend(self, backend) == [self EXCEPT !.backend = OptSome(backend)]

Builder_gcp(self, gcp_config) == Builder_backend(self, Gcp(gcp_config))

\* TelemetryConfigBuilder::build(self)
Builder_build(self) ==
    [service_name |-> unwrap_or_else(self.service_name, CARGO_PKG_NAME),
     service_version |-> unwrap_or_else(self.service_version, CARGO_PKG_VERSION),
     otlp_endpoint |-> self.otlp_endpoint,
     log_level |-> unwrap_or_else(self.log_level, "info"),
     log_format |-> unwrap_or_else(self.log_format, "Pretty"),
     backend |-> unwrap_or_else(self.backend, Local)]

\* The level directives an EnvFilter prints back as they were given.
LevelFilters == {"off", "error", "warn", "info", "debug", "trace"}

\* EnvFilter::try_from_default_env(): RUST_LOG read with env::var and parsed;
\* Err when the variable cannot be read or does not parse.
EnvFilter_try_from_default_env(e) ==
    LET v == env_var(e, "RUST_LOG")
    IN  IF is_ok(v) /\ v.val \in LevelFilters THEN OptSome(v.val) ELSE OptNone("")

\* EnvFilter::new(directives): directives that do not parse are dropped, and a
\* filter left without directives lets ERROR through.
EnvFilter_new(directives) == IF directives \in LevelFilters THEN directives ELSE "error"

\* build_filter(config), as filter.to_string()
build_filter(e, config) ==
    unwrap_or_else(EnvFilter_try_from_default_env(e), EnvFilter_new(config.log_level))

\* ----------------------------------------------------- environment space
NotCalled == [called |-> FALSE, backend |-> Local]

RegionVars == {"CLOUD_RUN_REGION", "FUNCTION_REGION", "GAE_REGION"}
AllEnvNames == EnvNames \cup RegionVars

EmptyEnv == [n \in AllEnvNames |-> Unset]

\* The environments explored: each project variable unset, set to bytes that are
\* not Unicode, or set to a value of its own; each platform marker unset or set;
\* the endpoint override unset or set.
ProjectValue(n, c) ==
    CASE c = "unset" -> Unset
      [] c = "not_unicode" -> NotUnicode
      [] OTHER -> Val("proj-" \o n)

MkEnv(pf, mf, ep) ==
    [n \in AllEnvNames |->
        IF n \in DOMAIN pf THEN ProjectValue(n, pf[n])
        ELSE IF n \in MarkerVars THEN (IF mf[n] THEN Val("x") ELSE Unset)
        ELSE IF n = "OTEL_EXPORTER_OTLP_ENDPOINT" THEN ep
        ELSE Unset]

EnvSpace ==
    {MkEnv(pf, mf, ep) :
        pf \in [{ProjectVars[i] : i \in 1..3} -> {"unset", "not_unicode", "value"}],
        mf \in [MarkerVars -> BOOLEAN],
        ep \in {Unset, Val("http://localhost:4317")}}

\* ------------------------------------------------------------- bootstrap
Idle == [pc |-> "idle", id |-> 0, kind |-> "-", requested |-> "-",
         configured |-> NoEndpoint, cfg |-> TelemetryConfig_new("", ""),
         gcp |-> NoGcpConfig, steps |-> <<>>, outcome |-> "-", endpoint |-> NoEndpoint,
         exporter |-> FALSE, resource |-> <<>>, subBefore |-> 0, tracerBefore |-> 0]

NoProvider == [built |-> FALSE, kind |-> "-", exporter |-> FALSE, endpoint |-> "",
               resource |-> <<>>, shutdown |-> FALSE,
               queued |-> 0, exported |-> 0, lost |-> 0, dropped |-> 0]

Ids == 1..MaxCalls

InitBoot ==
    /\ call = Idle
    /\ history = <<>>
    /\ globalTracer = 0
    /\ globalSubscriber = 0
    /\ providers = [i \in Ids |-> NoProvider]
    /\ guards = [i \in Ids |-> "none"]
    /\ plog = [i \in Ids |-> <<>>]
    /\ emitted = 0

InitEnvRes ==
    /\ detected = NotCalled
    /\ prevDetected = NotCalled
    /\ platform = "-"
    /\ gcpCfg = [called |-> FALSE, cfg |-> NoGcpConfig]

Callers == 1..MaxCallers

\* What one interceptor call has done so far: its result, the token it got,
\* whether it waited for the Mutex, whether it issued a token request of its own
\* (and how many requests had succeeded in the window when it did), and the
\* expiry windows in which it started and returned.
NoHeader == [some |-> FALSE, token |-> 0]

NoResult == [st |-> "-", token |-> 0, waited |-> FALSE, fetched |-> FALSE,
             okBefore |-> 0, startEpoch |-> 0, epoch |-> 0, authorization |-> NoHeader]

InitAuthIdle ==
    /\ mutex = 0
    /\ waitq = <<>>
    /\ cpc = [c \in Callers |-> "idle"]
    /\ cres = [c \in Callers |-> NoResult]
    /\ cache = [fresh |-> FALSE, token |-> 0]
    /\ inflight = {}
    /\ epoch = 1
    /\ fetches = [e \in 1..MaxEpochs |-> 0]
    /\ okFetches = [e \in 1..MaxEpochs |-> 0]

NotBuilt == [built |-> FALSE, attrs |-> <<>>, resource |-> <<>>]

\* No resource built outside a bootstrap call; main not started.
\* No configuration chain started, no filter built.
NoObject == [kind |-> "none", v |-> <<>>]
NoOp == [op |-> "-", field |-> "-", arg |-> "-", before |-> NoObject]
NoFilter == [built |-> FALSE, level |-> "", filter |-> ""]

CfgIdle ==
    /\ cobj = NoObject
    /\ clast = NoOp
    /\ cfilter = NoFilter

AppIdle ==
    /\ CfgIdle
    /\ resSrc = "-"
    /\ resCfg = TelemetryConfig_new("", "")
    /\ resExtra = <<>>
    /\ resOut = NotBuilt
    /\ mpc = "start"
    /\ server = "none"

\* No log record formatted yet, no thread inside the fmt layer.
Threads == 1..MaxThreads

NoSpan == [some |-> FALSE, name |-> <<>>, fields |-> <<>>]

NoRecord == [level |-> "-", target |-> <<>>, span |-> NoSpan, fields |-> <<>>]

LogIdle ==
    /\ record = NoRecord
    /\ line = <<>>
    /\ tpc = [t \in Threads |-> 0]
    /\ trec = [t \in Threads |-> [id |-> 0, rec |-> NoRecord]]
    /\ tbuf = [t \in Threads |-> <<>>]
    /\ stdout = <<>>
    /\ nrec = 0
    /\ AppIdle

\* The configurations the callers pass. Endpoints: none, a collector URL, a
\* string that is no URL but parses as a URI, and a string no URI parser accepts.
GcpConfig_new(project) ==
    [some |-> TRUE, project_id |-> project, endpoint |-> DEFAULT_ENDPOINT,
     platform |-> GcpPlatform_default]

BootGcpConfigs == {GcpConfig_new("proj"),
                   [GcpConfig_new("") EXCEPT !.endpoint = "invalid-url"],
                   [GcpConfig_new("proj") EXCEPT !.endpoint = "http://bad host"]}

LocalConfig(ep, lf) ==
    [TelemetryConfig_new("svc", "1.0") EXCEPT !.otlp_endpoint = ep, !.log_format = lf]

BootConfigs ==
    {LocalConfig(NoEndpoint, "Pretty"), LocalConfig(NoEndpoint, "Json"),
     LocalConfig(SomeEndpoint("http://localhost:4317"), "Pretty"),
     LocalConfig(SomeEndpoint("invalid-url"), "Pretty"),
     LocalConfig(SomeEndpoint("http://bad host"), "Json")}
    \cup {[LocalConfig(NoEndpoint, "Json") EXCEPT !.backend = Gcp(g)] : g \in BootGcpConfigs}

\* init_with_provider takes the provider and the configuration separately: a
\* GcpProvider may come with a configuration whose backend is Local.
ProviderCalls ==
    {<<"Default", NoGcpConfig, cfg>> : cfg \in BootConfigs}
    \cup {<<"Gcp", g, LocalConfig(SomeEndpoint("http://bad host"), "Pretty")>> :
            g \in BootGcpConfigs}

\* The world of one process: its environment, whether the ambient credential
\* chain yields a provider, and what the token endpoint answers.
BootWorlds ==
    {<<EmptyEnv, "none", "grants">>, <<EmptyEnv, "ok", "rejects">>,
     <<[EmptyEnv EXCEPT !["GCP_PROJECT"] = Val("proj"), !["LOG_FORMAT"] = Val("json"),
                        !["K_SERVICE"] = Val("svc")], "ok", "grants">>,
     <<[EmptyEnv EXCEPT !["GOOGLE_CLOUD_PROJECT"] = Val("")], "none", "rejects">>}

\* SpanExporter::builder().with_tonic().with_endpoint(endpoint)...build(): the
\* transport is created lazily, so only a string that does not parse as a URI
\* makes build() return Err; "invalid-url" parses and connects (and fails) later.
SpanExporter_build_RejectsNonUrl(endpoint) ==
    IF endpoint \in {"http://bad host", "invalid-url"} THEN "Err" ELSE "Ok"

SpanExporter_build(endpoint) ==
    IF endpoint \in {"http://bad host"} THEN "Err" ELSE "Ok"

Reachable(endpoint) == endpoint \in {"http://localhost:4317", DEFAULT_ENDPOINT}

\* GcpAuthInterceptor::from_adc: gcp_auth::provider() over the ambient chain.
from_adc(chain) == IF chain = "ok" THEN "Ok" ELSE "Auth"

Finish(c, outcome) == [c EXCEPT !.pc = "done", !.outcome = outcome]

Step(c, name, pc) == [c EXCEPT !.steps = Append(@, name), !.pc = pc]

\* The order of GcpProvider::build_tracer_provider's steps.
GcpProvider_next_ResourceFirst(pc) ==
    CASE pc = "start" -> "gcp_resource"
      [] pc = "gcp_resource" -> "gcp_auth"
      [] pc = "gcp_auth" -> "gcp_exporter"
      [] OTHER -> "install_tracer"

GcpProvider_next(pc) ==
    CASE pc = "start" -> "gcp_auth"
      [] pc = "gcp_auth" -> "gcp_exporter"
      [] pc = "gcp_exporter" -> "gcp_resource"
      [] OTHER -> "install_tracer"

\* The order of DefaultProvider::build_tracer_provider's steps.
DefaultProvider_next(pc) ==
    CASE pc = "start" -> "default_resource"
      [] pc = "default_resource" -> "default_match"
      [] OTHER -> "install_tracer"

\* init_with_provider(provider, config): the call starts in the provider's
\* build_tracer_provider.
init_with_provider(kind, gcp, cfg) ==
    /\ call.pc = "idle"
    /\ Len(history) < MaxCalls
    /\ call' = [Idle EXCEPT
                   !.pc = IF kind = "Gcp" THEN GcpProvider_next("start")
                          ELSE DefaultProvider_next("start"),
                   !.id = Len(history) + 1, !.kind = kind, !.requested = kind,
                   !.configured = IF kind = "Gcp" THEN SomeEndpoint(gcp.endpoint)
                                  ELSE cfg.otlp_endpoint,
                   !.cfg = cfg, !.gcp = gcp,
                   !.subBefore = globalSubscriber, !.tracerBefore = globalTracer]
    /\ UNCHANGED <<worldVars, history, globalTracer, globalSubscriber, providers,
                   guards, plog, emitted, envVars, authVars, logVars, resVars, cfgVars, mainVars>>

\* init_with_config(config): the provider is chosen by config.backend.
init_with_config(cfg) ==
    IF cfg.backend.kind = "Gcp"
    THEN init_with_provider("Gcp", [some |-> TRUE, project_id |-> cfg.backend.project_id,
                                    endpoint |-> cfg.backend.endpoint,
                                    platform |-> cfg.backend.platform], cfg)
    ELSE init_with_provider("Default", NoGcpConfig, cfg)

\* init(): the configuration comes from the environment.
init == init_with_config(TelemetryConfig_from_env(env))

CallInit == init

CallInitWithConfig == \E cfg \in BootConfigs : init_with_config(cfg)

CallInitWithProvider == \E pc \in ProviderCalls : init_with_provider(pc[1], pc[2], pc[3])

\* What a completed call leaves in the history.
Summary(c) == [id |-> c.id, kind |-> c.kind, requested |-> c.requested,
               configured |-> c.configured, endpoint |-> c.endpoint,
               outcome |-> c.outcome, steps |-> c.steps,
               subBefore |-> c.subBefore, tracerBefore |-> c.tracerBefore]

\* SdkTracerProvider::builder()[.with_batch_exporter(exporter)].with_resource(resource).build()
NewProvider(c) ==
    [NoProvider EXCEPT !.built = TRUE, !.kind = c.kind, !.exporter = c.exporter,
                       !.endpoint = c.endpoint.val, !.resource = c.resource]

\* The call moves to its next step, or returns an error to its caller. The
\* provider exists once build_tracer_provider has returned Ok.
Advance(n) ==
    /\ IF n.pc = "done"
       THEN history' = Append(history, Summary(n)) /\ call' = Idle
       ELSE call' = n /\ UNCHANGED history
    /\ providers' = IF n.pc = "install_tracer"
                    THEN [providers EXCEPT ![n.id] = NewProvider(n)]
                    ELSE providers
    /\ UNCHANGED <<worldVars, globalTracer, globalSubscriber, guards, plog, emitted,
                   envVars, authVars, logVars, resVars, cfgVars, mainVars>>

\* DefaultProvider::build_tracer_provider: let resource = build_base_resource(config)
DefaultResource ==
    /\ call.pc = "default_resource"
    /\ Advance([Step(call, "resource", DefaultProvider_next(call.pc)) EXCEPT
                    !.resource = build_base_resource(call.cfg)])

\* DefaultProvider::build_tracer_provider: match &config.otlp_endpoint
DefaultProvider_match_AlwaysExports(c) ==
    LET endpoint == IF c.cfg.otlp_endpoint.some THEN c.cfg.otlp_endpoint.val
                    ELSE "http://localhost:4317" IN
    IF SpanExporter_build(endpoint) = "Ok"
    THEN [Step(c, "exporter", DefaultProvider_next(c.pc)) EXCEPT
              !.exporter = TRUE, !.endpoint = SomeEndpoint(endpoint)]
    ELSE Finish(Step(c, "exporter", c.pc), "Exporter")

DefaultProvider_match_IgnoresBuildError(c) ==
    IF c.cfg.otlp_endpoint.some
    THEN IF SpanExporter_build(c.cfg.otlp_endpoint.val) = "Ok"
         THEN [Step(c, "exporter", DefaultProvider_next(c.pc)) EXCEPT
                   !.exporter = TRUE, !.endpoint = c.cfg.otlp_endpoint]
         ELSE Step(c, "exporter", DefaultProvider_next(c.pc))
    ELSE [c EXCEPT !.pc = DefaultProvider_next(c.pc)]

DefaultProvider_match(c) ==
    IF c.cfg.otlp_endpoint.some
    THEN IF SpanExporter_build(c.cfg.otlp_endpoint.val) = "Ok"
         THEN [Step(c, "exporter", DefaultProvider_next(c.pc)) EXCEPT
                   !.exporter = TRUE, !.endpoint = c.cfg.otlp_endpoint]
         ELSE Finish(Step(c, "exporter", c.pc), "Exporter")
    ELSE [c EXCEPT !.pc = DefaultProvider_next(c.pc)]

DefaultMatch ==
    /\ call.pc = "default_match"
    /\ Advance(DefaultProvider_match(call))

\* build_gcp_exporter: GcpAuthInterceptor::from_adc(project_id).await?
build_gcp_exporter_auth_Downgrade(c, r) ==
    IF r = "Ok" THEN Step(c, "credential", GcpProvider_next(c.pc))
    ELSE [Step(c, "credential", DefaultProvider_next("start")) EXCEPT !.kind = "Default"]

build_gcp_exporter_auth(c, r) ==
    IF r = "Ok" THEN Step(c, "credential", GcpProvider_next(c.pc))
    ELSE Finish(Step(c, "credential", c.pc), r)

GcpAuth ==
    /\ call.pc = "gcp_auth"
    /\ Advance(build_gcp_exporter_auth(call, from_adc(adc)))

\* build_gcp_exporter: the exporter with the interceptor and the TLS configuration
build_gcp_exporter_build(c) ==
    IF SpanExporter_build(c.gcp.endpoint) = "Ok"
    THEN [Step(c, "exporter", GcpProvider_next(c.pc)) EXCEPT
              !.exporter = TRUE, !.endpoint = SomeEndpoint(c.gcp.endpoint)]
    ELSE Finish(Step(c, "exporter", c.pc), "Exporter")

GcpExporter ==
    /\ call.pc = "gcp_exporter"
    /\ Advance(build_gcp_exporter_build(call))

\* GcpProvider::build_tracer_provider: GcpResourceBuilder::new(..).build(config)
GcpResource ==
    /\ call.pc = "gcp_resource"
    /\ Advance([Step(call, "resource", GcpProvider_next(call.pc)) EXCEPT
                    !.resource = GcpResourceBuilder_build(env, call.gcp, call.cfg)])

\* What the exporter does with the spans it is handed: a Cloud export passes the
\* credential interceptor, which needs a token; the endpoint must be reachable.
Deliverable(p) ==
    /\ Reachable(p.endpoint)
    /\ p.kind = "Gcp" => tokenEndpoint = "grants"

Export(p) ==
    IF Deliverable(p)
    THEN [p EXCEPT !.exported = @ + p.queued, !.queued = 0]
    ELSE [p EXCEPT !.lost = @ + p.queued, !.queued = 0]

\* SdkTracerProvider::shutdown, also run when the last clone is dropped.
Shutdown(p) == [Export(p) EXCEPT !.shutdown = TRUE]

\* Who holds a clone of provider q besides opentelemetry::global: the guard, and
\* the OpenTelemetry layer of the installed subscriber.
Held(q) == guards[q] = "held" \/ globalSubscriber = q

\* init_subscriber: opentelemetry::global::set_tracer_provider(provider.clone())
InstallSetTracer ==
    /\ call.pc = "install_tracer"
    /\ globalTracer' = call.id
    /\ call' = Step(call, "install", "install_init")
    /\ LET old == globalTracer IN
       IF old # 0 /\ ~Held(old) /\ ~providers[old].shutdown
       THEN /\ providers' = [providers EXCEPT ![old] = Shutdown(@)]
            /\ plog' = [plog EXCEPT ![old] = Append(@, "shutdown")]
       ELSE UNCHANGED <<providers, plog>>
    /\ UNCHANGED <<worldVars, history, globalSubscriber, guards, emitted, envVars, authVars, logVars, resVars, cfgVars, mainVars>>

\* tracing_subscriber's init(): panics when a global default subscriber is set.
subscriber_init_Ignored(sub) == "Ok"

subscriber_init(sub) == IF sub # 0 THEN "Panic" ELSE "Ok"

\* init_with_provider: let guard = init_subscriber(..); Ok(guard)
init_return_DropsGuard(outcome) == IF outcome = "Ok" THEN "dropped" ELSE "none"

init_return(outcome) == IF outcome = "Ok" THEN "held" ELSE "none"

\* TelemetryGuard's release: flush the buffered spans, then shut the provider down.
TelemetryGuard_drop(p) == Shutdown(Export(p))

TelemetryGuard_drop_log == <<"flush", "shutdown">>

\* init_subscriber: registry().with(filter).with(otel_layer).with(fmt_layer).init(),
\* then init_with_provider returns.
InstallInit ==
    /\ call.pc = "install_init"
    /\ LET r == subscriber_init(globalSubscriber)
           g == init_return(r)
       IN  /\ globalSubscriber' = IF r = "Ok" /\ globalSubscriber = 0
                                  THEN call.id ELSE globalSubscriber
           /\ history' = Append(history, Summary(Finish(call, r)))
           /\ call' = Idle
           /\ guards' = [guards EXCEPT ![call.id] = g]
           /\ IF g = "dropped"
              THEN /\ providers' = [providers EXCEPT ![call.id] = TelemetryGuard_drop(@)]
                   /\ plog' = [plog EXCEPT ![call.id] = @ \o TelemetryGuard_drop_log]
              ELSE UNCHANGED <<providers, plog>>
    /\ UNCHANGED <<worldVars, globalTracer, emitted, envVars, authVars, logVars, resVars, cfgVars, mainVars>>

\* The caller releases the guard (drop(_telemetry_guard), or scope exit).
ReleaseGuard(id) ==
    /\ guards[id] = "held"
    /\ guards' = [guards EXCEPT ![id] = "released"]
    /\ providers' = [providers EXCEPT ![id] = TelemetryGuard_drop(@)]
    /\ plog' = [plog EXCEPT ![id] = @ \o TelemetryGuard_drop_log]
    /\ UNCHANGED <<worldVars, call, history, globalTracer, globalSubscriber, emitted,
                   envVars, authVars, logVars, resVars, cfgVars, mainVars>>

\* A span ends on provider id: it is queued for the batch exporter when there
\* is one and the provider is not shut down, and dropped otherwise.
OnEnd(p) ==
    IF p.exporter /\ ~p.shutdown THEN [p EXCEPT !.queued = @ + 1]
    ELSE [p EXCEPT !.dropped = @ + 1]

\* A span is emitted through opentelemetry::global (route "global") or through
\* the OpenTelemetry layer of the installed subscriber (route "layer").
EmitSpan(route) ==
    /\ emitted < MaxSpans
    /\ emitted' = emitted + 1
    /\ LET id == IF route = "global" THEN globalTracer ELSE globalSubscriber IN
       providers' = IF id # 0 /\ providers[id].built
                    THEN [providers EXCEPT ![id] = OnEnd(@)] ELSE providers
    /\ UNCHANGED <<worldVars, call, history, globalTracer, globalSubscriber, guards,
                   plog, envVars, authVars, logVars, resVars, cfgVars, mainVars>>

\* The batch processor of provider id exports what it has queued.
BatchExport(id) ==
    /\ providers[id].queued > 0
    /\ ~providers[id].shutdown
    /\ providers' = [providers EXCEPT ![id] = Export(@)]
    /\ UNCHANGED <<worldVars, call, history, globalTracer, globalSubscriber, guards,
                   plog, emitted, envVars, authVars, logVars, resVars, cfgVars, mainVars>>

Init ==
    /\ \E w \in BootWorlds : env = w[1] /\ adc = w[2] /\ tokenEndpoint = w[3]
    /\ InitBoot
    /\ InitEnvRes
    /\ InitAuthIdle
    /\ LogIdle

Next ==
    \/ CallInit
    \/ CallInitWithConfig
    \/ CallInitWithProvider
    \/ DefaultResource
    \/ DefaultMatch
    \/ GcpAuth
    \/ GcpExporter
    \/ GcpResource
    \/ InstallSetTracer
    \/ InstallInit
    \/ \E id \in Ids : ReleaseGuard(id)
    \/ \E route \in {"global", "layer"} : EmitSpan(route)
    \/ \E id \in Ids : BatchExport(id)

Spec == Init /\ [][Next]_vars

\* ------------------------------------------------------- claims under Spec
Range(q) == {q[i] : i \in 1..Len(q)}

Completed == Range(history)

\* Every bootstrap run so far: the completed ones and the one in progress.
Runs == Completed \cup (IF call.pc = "idle" THEN {} ELSE {Summary(call)})

\* C1: with the Gcp backend and no usable ambient credential, init returns the
\* authentication error, installs neither the global tracer provider nor the
\* subscriber, hands out no guard, and builds no provider at all, so no Local
\* provider takes the place of the Cloud one.
C1_AuthFailureFailsInit ==
    \A r \in Runs :
        (r.requested = "Gcp" /\ adc = "none") =>
            /\ r.kind = "Gcp"
            /\ r.outcome \in {"-", "Auth"}
            /\ r \in Completed => r.outcome = "Auth"
            /\ "install" \notin Range(r.steps)
            /\ ~providers[r.id].built
            /\ globalTracer # r.id
            /\ globalSubscriber # r.id
            /\ guards[r.id] = "none"

C1_Witness ==
    \E r \in Completed :
        /\ r.requested = "Gcp" /\ adc = "none" /\ r.outcome = "Auth"
        /\ r.steps = <<"credential">>

\* C2: once the global tracer provider and the global subscriber are installed,
\* no later initialization attempt replaces or alters either of them.
C2_InstalledAtMostOnce ==
    [][/\ globalTracer # 0 => globalTracer' = globalTracer
       /\ globalSubscriber # 0 => globalSubscriber' = globalSubscriber]_vars

StatedRank == [resource |-> 1, credential |-> 2, exporter |-> 3, install |-> 4]

\* The order GcpProvider takes: the resource is built after the exporter.
GcpRank == [credential |-> 1, exporter |-> 2, resource |-> 3, install |-> 4]

InOrder(steps, rank) ==
    \A i, j \in 1..Len(steps) : i < j => rank[steps[i]] < rank[steps[j]]

\* C6 as stated: in every run, for both providers, the steps taken so far follow
\* resource build, credential acquisition, exporter construction, installation.
C6_StatedOrder == \A r \in Runs : InOrder(r.steps, StatedRank)

\* C6 as amended: the steps of a run are strictly sequential and installation is
\* last; the Local provider builds the resource, then the exporter (when an
\* endpoint is configured); the Gcp provider acquires the credential, builds the
\* exporter, and only then builds the resource.
C6_ProviderOrder ==
    \A r \in Runs :
        /\ InOrder(r.steps, IF r.kind = "Gcp" THEN GcpRank ELSE StatedRank)
        /\ r.kind = "Default" => "credential" \notin Range(r.steps)
        /\ r.outcome \in {"Ok", "Panic"} =>
              r.steps = IF r.kind = "Gcp"
                        THEN <<"credential", "exporter", "resource", "install">>
                        ELSE IF r.configured.some
                        THEN <<"resource", "exporter", "install">>
                        ELSE <<"resource", "install">>

C6_Witness ==
    \E r \in Completed :
        /\ r.kind = "Gcp" /\ r.outcome = "Ok"
        /\ r.steps = <<"credential", "exporter", "resource", "install">>

\* C7: with the Gcp provider, when the credential chain can be constructed but
\* the token endpoint rejects token requests, init does not return a guard.
C7_CloudInitNeedsToken ==
    \A r \in Completed :
        (r.requested = "Gcp" /\ adc = "ok" /\ tokenEndpoint = "rejects") => r.outcome # "Ok"

\* C8: an initialization that reaches the installation while a global subscriber
\* is already set ends in the double-initialization outcome (the panic of the
\* subscriber's init), which no other failure produces: it is neither a returned
\* guard nor one of the Auth, Config, Exporter errors.
C8_DoubleInitDistinct ==
    \A r \in Completed :
        /\ ("install" \in Range(r.steps) /\ r.subBefore # 0) <=> r.outcome = "Panic"
        /\ r.outcome \in {"Ok", "Auth", "Exporter", "Panic"}

C8_Witness ==
    \E r \in Completed : r.outcome = "Panic" /\ r.subBefore # 0 /\ globalSubscriber = r.subBefore

\* C9: a Local configuration without endpoint builds a provider that has no
\* exporter; init succeeds (in a process with no subscriber installed yet);
\* spans that reach the provider are dropped, none is queued, exported or lost
\* in a failed export; releasing the guard completes the shutdown.
C9_LocalNoEndpointIsNoop ==
    \A r \in Completed :
        (r.requested = "Default" /\ ~r.configured.some) =>
            /\ r.outcome \in {"Ok", "Panic"}
            /\ r.subBefore = 0 => r.outcome = "Ok"
            /\ providers[r.id].built /\ ~providers[r.id].exporter
            /\ providers[r.id].queued = 0
            /\ providers[r.id].exported = 0
            /\ providers[r.id].lost = 0
            /\ guards[r.id] = "released" => providers[r.id].shutdown

C9_Witness ==
    \E r \in Completed :
        /\ r.requested = "Default" /\ ~r.configured.some /\ r.outcome = "Ok"
        /\ providers[r.id].dropped > 0
        /\ guards[r.id] = "released"

\* Endpoint strings that are not well-formed URLs.
Malformed(endpoint) == endpoint.some /\ endpoint.val \in {"invalid-url", "http://bad host"}

ExporterAttempted(r) == "exporter" \in Range(r.steps)

BuildOk(r) == "install" \in Range(r.steps)

C26_SameInitCall ==
    call.pc = "idle" => globalTracer = globalSubscriber

\* ------------------------------------------------------------- SpecEnv
\* TelemetryBackend::from_env() called in the current environment.
FromEnvCall ==
    /\ prevDetected' = detected
    /\ detected' = [called |-> TRUE, backend |-> TelemetryBackend_from_env(env)]
    /\ UNCHANGED <<worldVars, bootVars, authVars, logVars, resVars, cfgVars, mainVars, platform, gcpCfg>>

\* GcpPlatform::detect() called in the current environment.
DetectCall ==
    /\ platform' = GcpPlatform_detect(env)
    /\ UNCHANGED <<worldVars, bootVars, authVars, logVars, resVars, cfgVars, mainVars, detected,
                   prevDetected, gcpCfg>>

\* GcpConfig::from_env() called in the current environment.
GcpFromEnvCall ==
    /\ gcpCfg' = [called |-> TRUE, cfg |-> GcpConfig_from_env(env)]
    /\ UNCHANGED <<worldVars, bootVars, authVars, logVars, resVars, cfgVars, mainVars, detected,
                   prevDetected, platform>>

InitEnv ==
    /\ env \in EnvSpace
    /\ adc = "none"
    /\ tokenEndpoint = "grants"
    /\ InitBoot
    /\ InitEnvRes
    /\ InitAuthIdle
    /\ LogIdle

NextEnv ==
    \/ FromEnvCall
    \/ DetectCall
    \/ GcpFromEnvCall

SpecEnv == InitEnv /\ [][NextEnv]_vars

ProjectPresent(e) == \E i \in 1..3 : is_ok(e[ProjectVars[i]])

\* C5: backend auto-detection reads only the environment: a readable project
\* identifier in any of GOOGLE_CLOUD_PROJECT, GCLOUD_PROJECT, GCP_PROJECT gives
\* the Gcp backend, none gives Local, and a repeated call in the same
\* environment returns the same backend.
C5_BackendFromEnv ==
    detected.called =>
        /\ ProjectPresent(env) => detected.backend.kind = "Gcp"
        /\ ~ProjectPresent(env) => detected.backend = Local
        /\ prevDetected.called => prevDetected = detected

C5_Witness ==
    /\ detected.called
    /\ prevDetected.called
    /\ detected.backend.kind = "Gcp"
    /\ ~is_ok(env["GOOGLE_CLOUD_PROJECT"])
    /\ ~is_ok(env["GCLOUD_PROJECT"])

Set(e, n) == is_ok(e[n])

\* The platform of the stated priority.
StatedPlatform(e) ==
    IF Set(e, "K_SERVICE") \/ Set(e, "K_REVISION") THEN "CloudRun"
    ELSE IF Set(e, "FUNCTION_NAME") \/ Set(e, "FUNCTION_TARGET") THEN "CloudFunctions"
    ELSE IF Set(e, "GAE_SERVICE") \/ Set(e, "GAE_VERSION") THEN "AppEngine"
    ELSE "None"

\* C22: detection returns CloudRun if K_SERVICE or K_REVISION is set, else
\* CloudFunctions if FUNCTION_NAME or FUNCTION_TARGET is set, else AppEngine if
\* GAE_SERVICE or GAE_VERSION is set, else None; GcpConfig::from_env takes the
\* detected platform and CloudRun when detection returns None.
C22_PlatformPriority ==
    /\ platform # "-" => platform = StatedPlatform(env)
    /\ (gcpCfg.called /\ gcpCfg.cfg.some) =>
          gcpCfg.cfg.platform = IF StatedPlatform(env) = "None" THEN "CloudRun"
                                ELSE StatedPlatform(env)

C22_Witness ==
    /\ platform = "CloudFunctions"
    /\ Set(env, "FUNCTION_TARGET") /\ ~Set(env, "FUNCTION_NAME")
    /\ Set(env, "GAE_SERVICE")
    /\ gcpCfg.called /\ gcpCfg.cfg.some
    /\ gcpCfg.cfg.platform = "CloudFunctions"

FirstSet(e) ==
    IF Set(e, "GOOGLE_CLOUD_PROJECT") THEN e["GOOGLE_CLOUD_PROJECT"].val
    ELSE IF Set(e, "GCLOUD_PROJECT") THEN e["GCLOUD_PROJECT"].val
    ELSE e["GCP_PROJECT"].val

\* C23: GcpConfig::from_env returns None exactly when none of
\* GOOGLE_CLOUD_PROJECT, GCLOUD_PROJECT, GCP_PROJECT is set (readable);
\* otherwise project_id is the value of the first of them, in that order, that
\* is set, and endpoint is OTEL_EXPORTER_OTLP_ENDPOINT when set and the default
\* Cloud endpoint otherwise.
C23_ProjectAndEndpoint ==
    gcpCfg.called =>
        /\ ~gcpCfg.cfg.some <=> ~ProjectPresent(env)
        /\ gcpCfg.cfg.some =>
              /\ gcpCfg.cfg.project_id = FirstSet(env)
              /\ gcpCfg.cfg.endpoint =
                    IF Set(env, "OTEL_EXPORTER_OTLP_ENDPOINT")
                    THEN env["OTEL_EXPORTER_OTLP_ENDPOINT"].val
                    ELSE "https://telemetry.googleapis.com"

C23_Witness ==
    /\ gcpCfg.called
    /\ gcpCfg.cfg.some
    /\ ~Set(env, "GOOGLE_CLOUD_PROJECT")
    /\ Set(env, "GCLOUD_PROJECT") /\ Set(env, "GCP_PROJECT")
    /\ gcpCfg.cfg.project_id = env["GCLOUD_PROJECT"].val
    /\ gcpCfg.cfg.endpoint = "http://localhost:4317"

\* ------------------------------------------------------------- SpecAuth
\* GcpAuthInterceptor::call: self.provider.lock().await - the tokio Mutex is
\* fair, a caller that finds it taken (or others queued) waits in FIFO order.
Lock(c) ==
    /\ cpc[c] = "idle"
    /\ IF mutex = 0 /\ waitq = <<>>
       THEN /\ mutex' = c
            /\ cpc' = [cpc EXCEPT ![c] = "locked"]
            /\ cres' = [cres EXCEPT ![c].startEpoch = epoch]
            /\ UNCHANGED waitq
       ELSE /\ waitq' = Append(waitq, c)
            /\ cpc' = [cpc EXCEPT ![c] = "waiting"]
            /\ cres' = [cres EXCEPT ![c].startEpoch = epoch, ![c].waited = TRUE]
            /\ UNCHANGED mutex
    /\ UNCHANGED <<worldVars, bootVars, envVars, logVars, resVars, cfgVars, mainVars, cache, inflight, epoch, fetches, okFetches>>

\* The Mutex, released, goes to the first waiter.
LockGranted(c) ==
    /\ mutex = 0
    /\ waitq # <<>>
    /\ Head(waitq) = c
    /\ mutex' = c
    /\ waitq' = Tail(waitq)
    /\ cpc' = [cpc EXCEPT ![c] = "locked"]
    /\ UNCHANGED <<worldVars, bootVars, envVars, logVars, resVars, cfgVars, mainVars, cres, cache, inflight, epoch, fetches,
                   okFetches>>

\* The MutexGuard is a temporary of the expression lock().await.token(..).await:
\* it lives until token() has returned, so the Mutex stays with the caller
\* while its token request is in flight.
MutexDuringToken_Released(c) == 0

MutexDuringToken(c) == c

\* metadata.insert("authorization", "Bearer {token}") with the token this call
\* was given.
authorization_header_Bootstrap(token) == [some |-> TRUE, token |-> 0]

authorization_header(token) == [some |-> TRUE, token |-> token]

\* provider.token(&[TRACE_SCOPE]): the cached token while it is fresh, else a
\* request to the token endpoint.
TokenCall(c) ==
    /\ cpc[c] = "locked"
    /\ IF cache.fresh
       THEN /\ cres' = [cres EXCEPT ![c].st = "Ok", ![c].token = cache.token,
                                    ![c].epoch = epoch,
                                    ![c].authorization = authorization_header(cache.token)]
            /\ cpc' = [cpc EXCEPT ![c] = "done"]
            /\ mutex' = 0
            /\ UNCHANGED <<inflight, fetches>>
       ELSE /\ inflight' = inflight \cup {c}
            /\ fetches' = [fetches EXCEPT ![epoch] = @ + 1]
            /\ cres' = [cres EXCEPT ![c].fetched = TRUE, ![c].okBefore = okFetches[epoch]]
            /\ cpc' = [cpc EXCEPT ![c] = "fetching"]
            /\ mutex' = MutexDuringToken(c)
    /\ UNCHANGED <<worldVars, bootVars, envVars, logVars, resVars, cfgVars, mainVars, waitq, cache, epoch, okFetches>>

\* The token request returns: a granted token is cached and becomes the
\* authorization header; a rejection becomes Status::unauthenticated and caches
\* nothing.
TokenReturns(c) ==
    /\ cpc[c] = "fetching"
    /\ inflight' = inflight \ {c}
    /\ IF tokenEndpoint = "grants"
       THEN /\ cache' = [fresh |-> TRUE, token |-> cache.token + 1]
            /\ okFetches' = [okFetches EXCEPT ![epoch] = @ + 1]
            /\ cres' = [cres EXCEPT ![c].st = "Ok", ![c].token = cache.token + 1,
                                    ![c].epoch = epoch,
                                    ![c].authorization = authorization_header(cache.token + 1)]
       ELSE /\ cres' = [cres EXCEPT ![c].st = "Unauthenticated", ![c].epoch = epoch]
            /\ UNCHANGED <<cache, okFetches>>
    /\ cpc' = [cpc EXCEPT ![c] = "done"]
    /\ mutex' = IF mutex = c THEN 0 ELSE mutex
    /\ UNCHANGED <<worldVars, bootVars, envVars, logVars, resVars, cfgVars, mainVars, waitq, epoch, fetches>>

\* The cached token reaches its expiry margin: a new expiry window begins.
Expire ==
    /\ cache.fresh
    /\ inflight = {}
    /\ epoch < MaxEpochs
    /\ cache' = [cache EXCEPT !.fresh = FALSE]
    /\ epoch' = epoch + 1
    /\ UNCHANGED <<worldVars, bootVars, envVars, logVars, resVars, cfgVars, mainVars, mutex, waitq, cpc, cres, inflight, fetches,
                   okFetches>>

\* The token endpoint starts or stops granting tokens.
EndpointChanges ==
    /\ tokenEndpoint' = IF tokenEndpoint = "grants" THEN "rejects" ELSE "grants"
    /\ UNCHANGED <<env, adc, bootVars, envVars, authVars, logVars, resVars, cfgVars, mainVars>>

\* The interceptor exists: from_adc succeeded. The provider may or may not hold
\* a token already.
InitAuth ==
    /\ env = EmptyEnv
    /\ adc = "ok"
    /\ tokenEndpoint \in {"grants", "rejects"}
    /\ InitBoot
    /\ InitEnvRes
    /\ mutex = 0
    /\ waitq = <<>>
    /\ cpc = [c \in Callers |-> "idle"]
    /\ cres = [c \in Callers |-> NoResult]
    /\ cache \in {[fresh |-> FALSE, token |-> 0], [fresh |-> TRUE, token |-> 0]}
    /\ inflight = {}
    /\ epoch = 1
    /\ fetches = [e \in 1..MaxEpochs |-> 0]
    /\ okFetches = [e \in 1..MaxEpochs |-> 0]
    /\ LogIdle

NextAuth ==
    \/ \E c \in Callers : Lock(c)
    \/ \E c \in Callers : LockGranted(c)
    \/ \E c \in Callers : TokenCall(c)
    \/ \E c \in Callers : TokenReturns(c)
    \/ Expire
    \/ EndpointChanges

SpecAuth == InitAuth /\ [][NextAuth]_vars

Returned(c) == cpc[c] = "done"

\* C4 as stated: at most one token request is in flight at any time, and a
\* caller that waited for the Mutex and returns within the expiry window in
\* which it started never issues a request of its own.
C4_WaitersNeverFetch ==
    /\ Cardinality(inflight) <= 1
    /\ \A c \in Callers :
          (Returned(c) /\ cres[c].waited /\ cres[c].epoch = cres[c].startEpoch)
              => ~cres[c].fetched

\* C4 as amended: at most one token request is in flight at any time, issued by
\* the holder of the Mutex; at most one request succeeds per expiry window; a
\* caller issues a request only while none has succeeded in the window, so the
\* callers behind a successful refresh receive its token, and all callers that
\* return a token within one window return the same one; a caller that waited
\* behind a failed request issues its own.
C4_SingleFlight ==
    /\ Cardinality(inflight) <= 1
    /\ \A c \in inflight : mutex = c
    /\ \A e \in 1..MaxEpochs : okFetches[e] <= 1
    /\ \A c \in Callers : cres[c].fetched => cres[c].okBefore = 0
    /\ \A c, d \in Callers :
          (Returned(c) /\ Returned(d) /\ cres[c].st = "Ok" /\ cres[d].st = "Ok"
              /\ cres[c].epoch = cres[d].epoch) => cres[c].token = cres[d].token

C4_Witness ==
    \E c, d \in Callers :
        /\ Returned(c) /\ Returned(d)
        /\ cres[c].fetched /\ cres[c].st = "Ok"
        /\ cres[d].waited /\ ~cres[d].fetched /\ cres[d].st = "Ok"
        /\ cres[d].startEpoch = cres[c].epoch /\ cres[d].epoch = cres[c].epoch
        /\ cres[d].token = cres[c].token
\* C20: every call of the interceptor that lets the request pass has put the
\* authorization header on it, with the token the credential provider gave to
\* that very call, which is the provider's valid token of the window in which the
\* call returned; a call that could not obtain a token is rejected as
\* unauthenticated and its request carries no header and does not pass; a call
\* whose token request was rejected never passes.
C20_BearerPerRequest ==
    \A c \in Callers :
        Returned(c) =>
            /\ cres[c].st \in {"Ok", "Unauthenticated"}
            /\ cres[c].st = "Ok" =>
                  /\ cres[c].authorization = [some |-> TRUE, token |-> cres[c].token]
                  /\ (cache.fresh /\ cres[c].epoch = epoch) => cres[c].authorization.token = cache.token
            /\ cres[c].st = "Unauthenticated" =>
                  /\ ~cres[c].authorization.some
                  /\ cres[c].fetched

\* One call passed with the token of a refresh made after an earlier expiry, and
\* another was rejected.
C20_Witness ==
    \E c, d \in Callers :
        /\ Returned(c) /\ cres[c].st = "Ok" /\ cres[c].fetched
        /\ cres[c].epoch > 1
        /\ cres[c].authorization.token > 0
        /\ Returned(d) /\ cres[d].st = "Unauthenticated"

\* ------------------------------------------------------------- SpecFmt
\* Text is a sequence of characters. The characters that matter to JSON are
\* themselves; any other element stands for a run of ordinary characters.
Quote == "\""
Backslash == "\\"
Newline == "\n"

Alphabet == {"a", Quote, Backslash, Newline}

TextsOfLen(n) == [1..n -> Alphabet]

Texts == UNION {TextsOfLen(n) : n \in 0..MaxLen}

Levels == {"TRACE", "DEBUG", "INFO", "WARN", "ERROR"}

\* The values a tracing field visitor is handed.
StrValue(t) == [kind |-> "str", text |-> t, n |-> 0, b |-> FALSE]
I64Value(n) == [kind |-> "i64", text |-> <<>>, n |-> n, b |-> FALSE]
BoolValue(b) == [kind |-> "bool", text |-> <<>>, n |-> 0, b |-> b]

\* The current span: its name and its fields as the layer's field formatter
\* (the fmt layer's default one) rendered them when they were recorded.
Span(name, fields) == [some |-> TRUE, name |-> name, fields |-> fields]

Spans == {NoSpan, Span(<<"hello">>, <<>>),
          Span(<<"hello">>, <<"user", "=", Quote, "bob", Quote>>)}

\* An event's fields in declaration order.
EventFields ==
    {<<>>} \cup {<<[key |-> "message", value |-> StrValue(t)]>> : t \in Texts}
    \cup {<<[key |-> "user", value |-> v], [key |-> "message", value |-> StrValue(<<"a">>)]>> :
            v \in {I64Value(7), BoolValue(TRUE)}}
    \cup {<<[key |-> "severity", value |-> StrValue(<<"a">>)]>>}

Records ==
    [level : Levels, target : Texts, span : Spans, fields : EventFields]

\* chrono::Utc::now().to_rfc3339_opts(SecondsFormat::Micros, true)
to_rfc3339_opts == "2024-01-01T00:00:00.000000Z"

\* format_event: match *event.metadata().level()
severity_of_LevelName(level) == level

severity_of(level) ==
    CASE level = "ERROR" -> "ERROR"
      [] level = "WARN" -> "WARNING"
      [] level = "INFO" -> "INFO"
      [] level = "DEBUG" -> "DEBUG"
      [] level = "TRACE" -> "DEBUG"

\* serde_json's string escaping.
json_escape_char(c) ==
    CASE c = Quote -> <<Backslash, Quote>>
      [] c = Backslash -> <<Backslash, Backslash>>
      [] c = Newline -> <<Backslash, "n">>
      [] OTHER -> <<c>>

RECURSIVE json_escape(_)
json_escape(t) == IF t = <<>> THEN <<>> ELSE json_escape_char(Head(t)) \o json_escape(Tail(t))

\* serde_json::to_string(value) for the values JsonVisitor stores.
to_string(v) ==
    CASE v.kind = "str" -> <<Quote>> \o json_escape(v.text) \o <<Quote>>
      [] v.kind = "i64" -> <<ToString(v.n)>>
      [] v.kind = "bool" -> <<IF v.b THEN "true" ELSE "false">>

\* JsonVisitor: each field is inserted into a serde_json::Map under its name; a
\* later field of the same name replaces the earlier one; the Map iterates in
\* key order.
KeyOrder == <<"message", "severity", "user">>

RECURSIVE JsonVisitor_insert(_, _)
JsonVisitor_insert(map, fields) ==
    IF fields = <<>> THEN map
    ELSE JsonVisitor_insert([k \in DOMAIN map \cup {Head(fields).key} |->
                                IF k = Head(fields).key THEN Head(fields).value ELSE map[k]],
                            Tail(fields))

EmptyMap == [k \in {} |-> StrValue(<<>>)]

Map_iter(map) ==
    SelectSeq(KeyOrder, LAMBDA k : k \in DOMAIN map)

Piece(part, key, text) == [part |-> part, key |-> key, text |-> text]

format_event_span(rec) ==
    IF rec.span.some /\ rec.span.fields # <<>>
    THEN <<Piece("span", "span",
                 <<",", Quote, "span", Quote, ":", "{", Quote, "name", Quote, ":", Quote>>
                 \o rec.span.name \o <<Quote, ",">> \o rec.span.fields \o <<"}">>)>>
    ELSE <<>>

format_event_fields(rec) ==
    LET map == JsonVisitor_insert(EmptyMap, rec.fields)
        keys == Map_iter(map)
    IN  [i \in 1..Len(keys) |->
            Piece("field", keys[i],
                  <<",", Quote, keys[i], Quote, ":">> \o to_string(map[keys[i]]))]

format_event_head(rec) ==
    <<Piece("severity", "severity",
            <<"{", Quote, "severity", Quote, ":", Quote, severity_of(rec.level), Quote>>),
      Piece("timestamp", "timestamp",
            <<",", Quote, "timestamp", Quote, ":", Quote, to_rfc3339_opts, Quote>>),
      Piece("target", "target",
            <<",", Quote, "target", Quote, ":", Quote>> \o rec.target \o <<Quote>>)>>

format_event_close == <<Piece("close", "", <<"}", Newline>>)>>

\* GcpJsonFormat::format_event: the pieces it writes, in the order it writes them.
format_event_FieldsFirst(rec) ==
    format_event_head(rec) \o format_event_fields(rec) \o format_event_span(rec)
    \o format_event_close

format_event(rec) ==
    format_event_head(rec) \o format_event_span(rec) \o format_event_fields(rec)
    \o format_event_close

RECURSIVE Flatten(_)
Flatten(pieces) ==
    IF pieces = <<>> THEN <<>> ELSE Head(pieces).text \o Flatten(Tail(pieces))

\* The event reaches the fmt layer with the JSON format.
FormatEvent ==
    /\ line = <<>>
    /\ line' = format_event(record)
    /\ UNCHANGED <<worldVars, bootVars, envVars, authVars, resVars, cfgVars, mainVars, record, tpc, trec, tbuf, stdout,
                   nrec>>

\* Any event: level, target, current span and fields are the caller's.
InitFmt ==
    /\ env = EmptyEnv
    /\ adc = "none"
    /\ tokenEndpoint = "grants"
    /\ InitBoot
    /\ InitEnvRes
    /\ InitAuthIdle
    /\ record \in Records
    /\ line = <<>>
    /\ tpc = [t \in Threads |-> 0]
    /\ trec = [t \in Threads |-> [id |-> 0, rec |-> NoRecord]]
    /\ tbuf = [t \in Threads |-> <<>>]
    /\ stdout = <<>>
    /\ nrec = 0
    /\ AppIdle

NextFmt == FormatEvent

SpecFmt == InitFmt /\ [][NextFmt]_vars

\* ---- what a JSON parser accepts (RFC 8259, no insignificant whitespace)
Escapable == {Quote, Backslash, "/", "b", "f", "n", "r", "t"}
Control == {Newline}
Literals == {"true", "false", "null"} \cup {ToString(n) : n \in 0..9}

\* s[i] is the first character after an opening quote: the index after the
\* closing quote, or 0 when the text is no string.
RECURSIVE StringEnd(_, _)
StringEnd(s, i) ==
    IF i > Len(s) THEN 0
    ELSE IF s[i] = Quote THEN i + 1
    ELSE IF s[i] = Backslash
         THEN IF i + 1 <= Len(s) /\ s[i + 1] \in Escapable THEN StringEnd(s, i + 2) ELSE 0
    ELSE IF s[i] \in Control THEN 0
    ELSE StringEnd(s, i + 1)

ParseString(s, i) == IF i <= Len(s) /\ s[i] = Quote THEN StringEnd(s, i + 1) ELSE 0

RECURSIVE ParseValue(_, _)
RECURSIVE ParseMembers(_, _)
ParseObject(s, i) ==
    IF i + 1 > Len(s) \/ s[i] # "{" THEN 0
    ELSE IF s[i + 1] = "}" THEN i + 2
    ELSE ParseMembers(s, i + 1)

ParseValue(s, i) ==
    IF i > Len(s) THEN 0
    ELSE IF s[i] = Quote THEN ParseString(s, i)
    ELSE IF s[i] = "{" THEN ParseObject(s, i)
    ELSE IF s[i] \in Literals THEN i + 1
    ELSE 0

ParseMembers(s, i) ==
    LET k == ParseString(s, i) IN
    IF k = 0 \/ k > Len(s) \/ s[k] # ":" THEN 0
    ELSE LET v == ParseValue(s, k + 1) IN
         IF v = 0 \/ v > Len(s) THEN 0
         ELSE IF s[v] = "," THEN ParseMembers(s, v + 1)
         ELSE IF s[v] = "}" THEN v + 1
         ELSE 0

\* The text is exactly one line holding one JSON object.
ValidJsonLine(s) ==
    /\ Len(s) >= 3
    /\ s[Len(s)] = Newline
    /\ \A i \in 1..(Len(s) - 1) : s[i] # Newline
    /\ ParseObject(SubSeq(s, 1, Len(s) - 1), 1) = Len(s)

Formatted == line # <<>>

\* C12: for every log record the formatter's output is exactly one line that
\* parses as a single JSON object.
C12_ValidJsonLine == Formatted => ValidJsonLine(Flatten(line))

\* What does hold: a record whose target holds no quote, backslash or control
\* character and whose span has no recorded fields is one line of valid JSON.
PlainText(t) == \A i \in 1..Len(t) : t[i] \notin {Quote, Backslash, Newline}

C12_PlainRecordValid ==
    (Formatted /\ PlainText(record.target) /\ record.span.fields = <<>>)
        => ValidJsonLine(Flatten(line))

C12_PlainWitness ==
    /\ Formatted
    /\ PlainText(record.target)
    /\ record.span.fields = <<>>
    /\ \E i \in 1..Len(record.fields) : ~PlainText(record.fields[i].value.text)

\* The severities of the stated mapping.
StatedSeverity ==
    [l \in Levels |-> CASE l \in {"TRACE", "DEBUG"} -> "DEBUG"
                        [] l = "INFO" -> "INFO"
                        [] l = "WARN" -> "WARNING"
                        [] l = "ERROR" -> "ERROR"]

\* C13: every level maps to one severity (TRACE and DEBUG to DEBUG, INFO to
\* INFO, WARN to WARNING, ERROR to ERROR), and every formatted record opens with
\* that value under the top-level key "severity".
C13_SeverityMapping ==
    Formatted =>
        /\ severity_of(record.level) = StatedSeverity[record.level]
        /\ line[1].text = <<"{", Quote, "severity", Quote, ":", Quote,
                            StatedSeverity[record.level], Quote>>

C13_Witness ==
    /\ Formatted
    /\ record.level = "TRACE"
    /\ line[1].text[7] = "DEBUG"

HasSpanObject(rec) == rec.span.some /\ rec.span.fields # <<>>

EventKeys(rec) == {rec.fields[i].key : i \in 1..Len(rec.fields)}

\* C14: the pieces of every formatted record are, in this order: severity,
\* timestamp, target, the span object (present when the current span has
\* recorded fields, holding its name and fields and nothing else), then one
\* piece per event field at the top level, then the closing brace.
C14_KeyOrder ==
    Formatted =>
        LET n == Len(line)
            first == IF HasSpanObject(record) THEN 5 ELSE 4
        IN  /\ n >= first
            /\ line[1].part = "severity"
            /\ line[2].part = "timestamp"
            /\ line[3].part = "target"
            /\ HasSpanObject(record) =>
                  /\ line[4].part = "span"
                  /\ line[4].text =
                        <<",", Quote, "span", Quote, ":", "{", Quote, "name", Quote, ":", Quote>>
                        \o record.span.name \o <<Quote, ",">> \o record.span.fields \o <<"}">>
            /\ \A i \in first..(n - 1) :
                  /\ line[i].part = "field"
                  /\ SubSeq(line[i].text, 1, 5) = <<",", Quote, line[i].key, Quote, ":">>
            /\ {line[i].key : i \in first..(n - 1)} = EventKeys(record)
            /\ n - first = Cardinality(EventKeys(record))
            /\ line[n].part = "close"

C14_Witness ==
    /\ Formatted
    /\ HasSpanObject(record)
    /\ Len(record.fields) = 2
    /\ line[5].key = "message"
    /\ line[6].key = "user"

\* C25: the top-level keys of every formatted record are pairwise distinct: no
\* key is emitted twice, also when an event field is named severity,
\* timestamp, target or span.
C25_KeysDistinct ==
    Formatted =>
        \A i, j \in 1..(Len(line) - 1) : line[i].key = line[j].key => i = j

\* ------------------------------------------------------------- SpecLog
\* The fmt layer's on_event on several threads. Each thread formats its event
\* into its own thread-local buffer, one write! after the other, and then hands
\* the whole buffer to the log output in one write_all, which holds the output's
\* lock for the duration of the call.
LogRecords ==
    {[level |-> "INFO", target |-> <<"a">>, span |-> NoSpan, fields |-> <<>>],
     [level |-> "ERROR", target |-> <<"a">>, span |-> NoSpan,
      fields |-> <<[key |-> "message", value |-> StrValue(<<"a">>)]>>]}

Written(id, n, piece) == [rec |-> id, n |-> n, part |-> piece.part]

\* write!(writer, ..) inside format_event: the Writer is the thread's buffer.
Writer_write_Unbuffered(buf, out, w) == [buf |-> buf, out |-> Append(out, w)]

Writer_write(buf, out, w) == [buf |-> Append(buf, w), out |-> out]

BeginEvent(t) ==
    /\ tpc[t] = 0
    /\ nrec < MaxRecords
    /\ \E rec \in LogRecords : trec' = [trec EXCEPT ![t] = [id |-> nrec + 1, rec |-> rec]]
    /\ nrec' = nrec + 1
    /\ tpc' = [tpc EXCEPT ![t] = 1]
    /\ UNCHANGED <<worldVars, bootVars, envVars, authVars, resVars, cfgVars, mainVars, record, line, tbuf, stdout>>

WritePiece(t) ==
    /\ tpc[t] >= 1
    /\ tpc[t] <= Len(format_event(trec[t].rec))
    /\ LET w == Writer_write(tbuf[t], stdout,
                             Written(trec[t].id, tpc[t], format_event(trec[t].rec)[tpc[t]]))
       IN  /\ tbuf' = [tbuf EXCEPT ![t] = w.buf]
           /\ stdout' = w.out
    /\ tpc' = [tpc EXCEPT ![t] = @ + 1]
    /\ UNCHANGED <<worldVars, bootVars, envVars, authVars, resVars, cfgVars, mainVars, record, line, trec, nrec>>

\* format_event returned Ok: io::Write::write_all(&mut writer, buf.as_bytes()),
\* then buf.clear().
WriteAll(t) ==
    /\ tpc[t] >= 1
    /\ tpc[t] = Len(format_event(trec[t].rec)) + 1
    /\ stdout' = stdout \o tbuf[t]
    /\ tbuf' = [tbuf EXCEPT ![t] = <<>>]
    /\ tpc' = [tpc EXCEPT ![t] = 0]
    /\ UNCHANGED <<worldVars, bootVars, envVars, authVars, resVars, cfgVars, mainVars, record, line, trec, nrec>>

InitLog ==
    /\ env = EmptyEnv
    /\ adc = "none"
    /\ tokenEndpoint = "grants"
    /\ InitBoot
    /\ InitEnvRes
    /\ InitAuthIdle
    /\ LogIdle

NextLog ==
    \/ \E t \in Threads : BeginEvent(t)
    \/ \E t \in Threads : WritePiece(t)
    \/ \E t \in Threads : WriteAll(t)

SpecLog == InitLog /\ [][NextLog]_vars

\* C16: in the log output every record is one contiguous unit: its pieces
\* follow each other from the first to the closing one with no piece of another
\* thread's record between them.
C16_RecordsContiguous ==
    \A i \in 1..Len(stdout) :
        /\ stdout[i].n = 1
              \/ (i > 1 /\ stdout[i - 1].rec = stdout[i].rec
                        /\ stdout[i - 1].n = stdout[i].n - 1)
        /\ stdout[i].part # "close" =>
              (i < Len(stdout) /\ stdout[i + 1].rec = stdout[i].rec)

\* Two threads were inside format_event at the same time: the record begun
\* later reached the output first, and both are there in full.
C16_Witness ==
    \E i, j \in 1..Len(stdout) :
        /\ i < j
        /\ stdout[i].rec > stdout[j].rec
        /\ stdout[i].part = "close"
        /\ stdout[j].part = "close"

\* ------------------------------------------------------------- SpecRes
\* The environments a configuration is read from.
ResEnvs ==
    {[EmptyEnv EXCEPT !["OTEL_SERVICE_NAME"] = n, !["OTEL_SERVICE_VERSION"] = v,
                      !["K_SERVICE"] = k] :
        n \in {Unset, NotUnicode, Val(""), Val("svc")},
        v \in {Unset, Val(""), Val("2.0")},
        k \in {Unset, Val("run")}}

\* Where a configuration comes from: the builder with nothing set, the
\* environment, or the caller's explicit values.
ResConfig(src, e) ==
    CASE src = "builder" -> TelemetryConfigBuilder_build
      [] src = "from_env" -> TelemetryConfig_from_env(e)
      [] src = "new" -> TelemetryConfig_new("svc", "1.0")

\* The attribute lists a backend hands to build_resource.
ResExtras(e) ==
    {<<>>,
     GcpResourceBuilder_attrs(e, GcpConfig_new("proj")),
     <<[key |-> "cloud.region", value |-> "r1"], [key |-> "cloud.region", value |-> "r2"]>>,
     <<[key |-> "service.name", value |-> "other"]>>,
     <<[key |-> "cloud.provider", value |-> "gcp"], [key |-> "service.version", value |-> "9"]>>}

\* The Local provider: build_base_resource(config).
BuildBaseResource ==
    /\ ~resOut.built
    /\ resExtra = <<>>
    /\ resOut' = [built |-> TRUE, attrs |-> base_attributes(resCfg),
                  resource |-> build_base_resource(resCfg)]
    /\ UNCHANGED <<worldVars, bootVars, envVars, authVars, logVars, mainVars, cfgVars, resSrc, resCfg,
                   resExtra>>

\* A backend with attributes of its own: build_resource(config, additional).
BuildResource ==
    /\ ~resOut.built
    /\ resOut' = [built |-> TRUE, attrs |-> build_resource_attrs(resCfg, resExtra),
                  resource |-> build_resource(resCfg, resExtra)]
    /\ UNCHANGED <<worldVars, bootVars, envVars, authVars, logVars, mainVars, cfgVars, resSrc, resCfg,
                   resExtra>>

InitRes ==
    /\ env \in ResEnvs
    /\ adc = "none"
    /\ tokenEndpoint = "grants"
    /\ InitBoot
    /\ InitEnvRes
    /\ InitAuthIdle
    /\ record = NoRecord
    /\ line = <<>>
    /\ tpc = [t \in Threads |-> 0]
    /\ trec = [t \in Threads |-> [id |-> 0, rec |-> NoRecord]]
    /\ tbuf = [t \in Threads |-> <<>>]
    /\ stdout = <<>>
    /\ nrec = 0
    /\ resSrc \in {"builder", "from_env", "new"}
    /\ resCfg = ResConfig(resSrc, env)
    /\ resExtra \in ResExtras(env)
    /\ resOut = NotBuilt
    /\ mpc = "start"
    /\ server = "none"
    /\ CfgIdle

NextRes ==
    \/ BuildBaseResource
    \/ BuildResource

SpecRes == InitRes /\ [][NextRes]_vars

BaseName(cfg) == [key |-> "service.name", value |-> cfg.service_name]
BaseVersion(cfg) == [key |-> "service.version", value |-> cfg.service_version]

\* C17: the attribute list starts with service name, then service version,
\* followed by the backend's attributes in the order given; in the resource
\* every key carries the value of its first occurrence in the list (a later
\* attribute of the same key does not override it), so service name and
\* service version are present with the configuration's values.
C17_BaseFirstNoOverride ==
    resOut.built =>
        LET a == resOut.attrs
            r == resOut.resource
        IN  /\ Len(a) = 2 + Len(resExtra)
            /\ a[1] = BaseName(resCfg)
            /\ a[2] = BaseVersion(resCfg)
            /\ SubSeq(a, 3, Len(a)) = resExtra
            /\ DOMAIN r = {a[i].key : i \in DOMAIN a}
            /\ \A i \in DOMAIN a :
                  (\A j \in DOMAIN a : j < i => a[j].key # a[i].key) => r[a[i].key] = a[i].value

\* C18: for every configuration obtained from defaults (the builder with
\* nothing set, or from_env under any environment) service name and service
\* version are non-empty and are attributes of the resulting resource.
C18_DefaultsNonEmpty ==
    (resOut.built /\ resSrc \in {"builder", "from_env"}) =>
        /\ resCfg.service_name # ""
        /\ resCfg.service_version # ""
        /\ resOut.attrs[1] = BaseName(resCfg)
        /\ resOut.attrs[2] = BaseVersion(resCfg)
        /\ {"service.name", "service.version"} \subseteq DOMAIN resOut.resource

\* ------------------------------------------------------------- SpecMain
\* main: telemetry::init().await.expect(..), PORT, the HTTP server, drop of the
\* guard.
MainWorlds ==
    BootWorlds
    \cup {<<[EmptyEnv EXCEPT !["OTEL_EXPORTER_OTLP_ENDPOINT"] = Val(ep)], "none", "grants">> :
            ep \in {"http://localhost:4317", "invalid-url", "http://bad host"}}

PortValues == {Unset, Val("8080"), Val("abc")}

\* .expect("Failed to initialize telemetry")
main_expect_Ignored(outcome) == "port"

main_expect(outcome) == IF outcome = "Ok" THEN "port" ELSE "panicked"

\* env::var("PORT").unwrap_or_else(|_| "8080".to_string()).parse().expect(..)
main_port(port) ==
    IF unwrap_or(port, "8080") \in {"8080"} THEN "bind" ELSE "panicked"

\* let _telemetry_guard = telemetry::init().await
MainInit ==
    /\ mpc = "start"
    /\ history = <<>>
    /\ CallInit

MainExpect ==
    /\ mpc = "start"
    /\ call.pc = "idle"
    /\ Len(history) = 1
    /\ mpc' = main_expect(history[1].outcome)
    /\ UNCHANGED <<worldVars, bootVars, envVars, authVars, logVars, resVars, cfgVars, server>>

MainPort ==
    /\ mpc = "port"
    /\ \E port \in PortValues : mpc' = main_port(port)
    /\ UNCHANGED <<worldVars, bootVars, envVars, authVars, logVars, resVars, cfgVars, server>>

\* HttpServer::new(..).bind(("0.0.0.0", port))?
MainBind ==
    /\ mpc = "bind"
    /\ \E bound \in BOOLEAN :
          IF bound THEN server' = "bound" /\ mpc' = "run"
          ELSE mpc' = "io_error" /\ UNCHANGED server
    /\ UNCHANGED <<worldVars, bootVars, envVars, authVars, logVars, resVars, cfgVars>>

\* .run(); server.await
MainRun ==
    /\ mpc = "run"
    /\ server' = "running"
    /\ mpc' = "serving"
    /\ UNCHANGED <<worldVars, bootVars, envVars, authVars, logVars, resVars, cfgVars>>

\* A request is handled: its span ends on the installed subscriber's layer.
MainRequest ==
    /\ mpc = "serving"
    /\ EmitSpan("layer")

\* server.await? returns.
ServerStop ==
    /\ mpc = "serving"
    /\ server' = "stopped"
    /\ \E r \in {"drop", "io_error"} : mpc' = r
    /\ UNCHANGED <<worldVars, bootVars, envVars, authVars, logVars, resVars, cfgVars>>

\* drop(_telemetry_guard), or the guard going out of scope on an early return
\* or a panic after init.
MainDropGuard ==
    /\ mpc \in {"drop", "io_error", "panicked"}
    /\ ReleaseGuard(1)

MainExit ==
    /\ mpc = "drop"
    /\ guards[1] = "released"
    /\ mpc' = "exited"
    /\ UNCHANGED <<worldVars, bootVars, envVars, authVars, logVars, resVars, cfgVars, server>>

InitMain ==
    /\ \E w \in MainWorlds : env = w[1] /\ adc = w[2] /\ tokenEndpoint = w[3]
    /\ InitBoot
    /\ InitEnvRes
    /\ InitAuthIdle
    /\ LogIdle

NextMain ==
    \/ MainInit
    \/ DefaultResource
    \/ DefaultMatch
    \/ GcpAuth
    \/ GcpExporter
    \/ GcpResource
    \/ InstallSetTracer
    \/ InstallInit
    \/ MainExpect
    \/ MainPort
    \/ MainBind
    \/ MainRun
    \/ MainRequest
    \/ \E id \in Ids : BatchExport(id)
    \/ ServerStop
    \/ MainDropGuard
    \/ MainExit

SpecMain == InitMain /\ [][NextMain]_vars

\* C19: the server is bound or run only after init returned Ok; while the
\* server is bound or running the guard is held; the guard is released only
\* when the server never started or has stopped.
C19_FailFastGuardHeld ==
    /\ server # "none" => (history # <<>> /\ history[1].outcome = "Ok")
    /\ server \in {"bound", "running"} => guards[1] = "held"
    /\ guards[1] = "released" => server \in {"none", "stopped"}

C19_Witness ==
    /\ mpc = "exited"
    /\ server = "stopped"
    /\ guards[1] = "released"
    /\ providers[1].exported > 0


\* ------------------------------------------------------------- SpecCfg
\* A configuration chain: TelemetryConfig::new(..) or ::from_env() followed by
\* with_* calls, or TelemetryConfig::builder() followed by setters and build();
\* build_filter may be called on the configuration the chain holds.

Config(c) == [kind |-> "config", v |-> c]
Builder(b) == [kind |-> "builder", v |-> b]
Op(op, field, arg) == [op |-> op, field |-> field, arg |-> arg, before |-> cobj]

NameArgs == {"svc"}
VersionArgs == {"1.0"}
EndpointArgs == {"http://localhost:4317"}
LevelArgs == {"info", "debug"}
FormatArgs == {"Pretty", "Json"}
GcpArgs == {GcpConfig_new("proj")}
BackendArgs == {Local} \cup {Gcp(g) : g \in GcpArgs}
RustLogValues == {Unset, NotUnicode, Val("warn"), Val("debug")}
CfgEnvs == {[EmptyEnv EXCEPT !["RUST_LOG"] = v] : v \in RustLogValues}

CfgFrame == UNCHANGED <<worldVars, bootVars, envVars, authVars, logVars, resVars, mainVars>>

ConfigNew ==
    /\ \E n \in NameArgs, v \in VersionArgs :
          /\ cobj' = Config(TelemetryConfig_new(n, v))
          /\ clast' = Op("new", "-", <<n, v>>)
    /\ UNCHANGED cfilter
    /\ CfgFrame

ConfigFromEnv ==
    /\ cobj' = Config(TelemetryConfig_from_env(env))
    /\ clast' = Op("from_env", "-", "-")
    /\ UNCHANGED cfilter
    /\ CfgFrame

WithLogFormat ==
    /\ cobj.kind = "config"
    /\ \E f \in FormatArgs :
          /\ cobj' = Config(with_log_format(cobj.v, f))
          /\ clast' = Op("with", "log_format", f)
    /\ UNCHANGED cfilter
    /\ CfgFrame

WithBackend ==
    /\ cobj.kind = "config"
    /\ \E b \in BackendArgs :
          /\ cobj' = Config(with_backend(cobj.v, b))
          /\ clast' = Op("with", "backend", b)
    /\ UNCHANGED cfilter
    /\ CfgFrame

WithOtlpEndpoint ==
    /\ cobj.kind = "config"
    /\ \E ep \in EndpointArgs :
          /\ cobj' = Config(with_otlp_endpoint(cobj.v, ep))
          /\ clast' = Op("with", "otlp_endpoint", SomeEndpoint(ep))
    /\ UNCHANGED cfilter
    /\ CfgFrame

WithLogLevel ==
    /\ cobj.kind = "config"
    /\ \E l \in LevelArgs :
          /\ cobj' = Config(with_log_level(cobj.v, l))
          /\ clast' = Op("with", "log_level", l)
    /\ UNCHANGED cfilter
    /\ CfgFrame

ConfigBuilder ==
    /\ cobj' = Builder(TelemetryConfigBuilder_default)
    /\ clast' = Op("builder", "-", "-")
    /\ UNCHANGED cfilter
    /\ CfgFrame

BuilderServiceName ==
    /\ cobj.kind = "builder"
    /\ \E n \in NameArgs :
          /\ cobj' = Builder(Builder_service_name(cobj.v, n))
          /\ clast' = Op("set", "service_name", OptSome(n))
    /\ UNCHANGED cfilter
    /\ CfgFrame

BuilderServiceVersion ==
    /\ cobj.kind = "builder"
    /\ \E v \in VersionArgs :
          /\ cobj' = Builder(Builder_service_version(cobj.v, v))
          /\ clast' = Op("set", "service_version", OptSome(v))
    /\ UNCHANGED cfilter
    /\ CfgFrame

BuilderOtlpEndpoint ==
    /\ cobj.kind = "builder"
    /\ \E ep \in EndpointArgs :
          /\ cobj' = Builder(Builder_otlp_endpoint(cobj.v, ep))
          /\ clast' = Op("set", "otlp_endpoint", OptSome(ep))
    /\ UNCHANGED cfilter
    /\ CfgFrame

BuilderLogLevel ==
    /\ cobj.kind = "builder"
    /\ \E l \in LevelArgs :
          /\ cobj' = Builder(Builder_log_level(cobj.v, l))
          /\ clast' = Op("set", "log_level", OptSome(l))
    /\ UNCHANGED cfilter
    /\ CfgFrame

BuilderLogFormat ==
    /\ cobj.kind = "builder"
    /\ \E f \in FormatArgs :
          /\ cobj' = Builder(Builder_log_format(cobj.v, f))
          /\ clast' = Op("set", "log_format", OptSome(f))
    /\ UNCHANGED cfilter
    /\ CfgFrame

BuilderJson ==
    /\ cobj.kind = "builder"
    /\ cobj' = Builder(Builder_json(cobj.v))
    /\ clast' = Op("json", "log_format", OptSome("Json"))
    /\ UNCHANGED cfilter
    /\ CfgFrame

BuilderPretty ==
    /\ cobj.kind = "builder"
    /\ cobj' = Builder(Builder_pretty(cobj.v))
    /\ clast' = Op("pretty", "log_format", OptSome("Pretty"))
    /\ UNCHANGED cfilter
    /\ CfgFrame

BuilderBackend ==
    /\ cobj.kind = "builder"
    /\ \E b \in BackendArgs :
          /\ cobj' = Builder(Builder_backend(cobj.v, b))
          /\ clast' = Op("set", "backend", OptSome(b))
    /\ UNCHANGED cfilter
    /\ CfgFrame

BuilderGcp ==
    /\ cobj.kind = "builder"
    /\ \E g \in GcpArgs :
          /\ cobj' = Builder(Builder_gcp(cobj.v, g))
          /\ clast' = Op("gcp", "backend", OptSome(Gcp(g)))
    /\ UNCHANGED cfilter
    /\ CfgFrame

BuilderBuild ==
    /\ cobj.kind = "builder"
    /\ cobj' = Config(Builder_build(cobj.v))
    /\ clast' = Op("build", "-", "-")
    /\ UNCHANGED cfilter
    /\ CfgFrame

BuildFilter ==
    /\ cobj.kind = "config"
    /\ cfilter' = [built |-> TRUE, level |-> cobj.v.log_level,
                   filter |-> build_filter(env, cobj.v)]
    /\ clast' = Op("build_filter", "-", "-")
    /\ UNCHANGED cobj
    /\ CfgFrame

InitCfg ==
    /\ env \in CfgEnvs
    /\ adc = "none"
    /\ tokenEndpoint = "grants"
    /\ InitBoot
    /\ InitEnvRes
    /\ InitAuthIdle
    /\ LogIdle

NextCfg ==
    \/ ConfigNew
    \/ ConfigFromEnv
    \/ WithLogFormat
    \/ WithBackend
    \/ WithOtlpEndpoint
    \/ WithLogLevel
    \/ ConfigBuilder
    \/ BuilderServiceName
    \/ BuilderServiceVersion
    \/ BuilderOtlpEndpoint
    \/ BuilderLogLevel
    \/ BuilderLogFormat
    \/ BuilderJson
    \/ BuilderPretty
    \/ BuilderBackend
    \/ BuilderGcp
    \/ BuilderBuild
    \/ BuildFilter

SpecCfg == InitCfg /\ [][NextCfg]_vars

\* The default of each field that has one.
FieldDefault(f) ==
    CASE f = "service_name" -> CARGO_PKG_NAME
      [] f = "service_version" -> CARGO_PKG_VERSION
      [] f = "log_level" -> "info"
      [] f = "log_format" -> "Pretty"
      [] f = "backend" -> Local

\* C21: TelemetryConfig::new sets log_level "info", Pretty, Local and no
\* endpoint; each with_* method and each builder setter changes only the field
\* it names, to the value given, whatever calls came before; build() takes the
\* value of every set field and the default of every unset one.
C21_FrameKept ==
    /\ clast.op = "new" =>
          /\ cobj.kind = "config"
          /\ cobj.v.service_name = clast.arg[1]
          /\ cobj.v.service_version = clast.arg[2]
          /\ cobj.v.otlp_endpoint = [some |-> FALSE, val |-> ""]
          /\ cobj.v.log_level = "info"
          /\ cobj.v.log_format = "Pretty"
          /\ cobj.v.backend.kind = "Local"
    /\ clast.op \in {"with", "set", "json", "pretty", "gcp"} =>
          /\ cobj.kind = clast.before.kind
          /\ cobj.v[clast.field] = clast.arg
          /\ \A f \in ConfigFields \ {clast.field} : cobj.v[f] = clast.before.v[f]
    /\ clast.op = "builder" =>
          /\ cobj.kind = "builder"
          /\ \A f \in ConfigFields : ~cobj.v[f].some
    /\ clast.op = "build" =>
          /\ cobj.kind = "config"
          /\ cobj.v.otlp_endpoint = clast.before.v.otlp_endpoint
          /\ \A f \in ConfigFields \ {"otlp_endpoint"} :
                cobj.v[f] = IF clast.before.v[f].some THEN clast.before.v[f].val
                            ELSE FieldDefault(f)

C21_Witness ==
    /\ clast.op = "with"
    /\ clast.field = "log_level"
    /\ clast.arg = "debug"
    /\ clast.before.v.log_format = "Json"
    /\ clast.before.v.otlp_endpoint.some
    /\ clast.before.v.backend.kind = "Gcp"
    /\ cobj.v.log_level = "debug"

\* C24: the filter built by build_filter is the configuration's log_level: for
\* a config with log_level L the filter reads L, and for a config made by
\* TelemetryConfig::new with no level given it reads "info".
C24_FilterIsLogLevel ==
    /\ cfilter.built => cfilter.filter = cfilter.level
    /\ (clast.op = "build_filter" /\ clast.before.v = TelemetryConfig_new("svc", "1.0")) =>
          cfilter.filter = "info"

====
